---- MODULE Spec2Model ----
(***************************************************************************)
(* Model of git-remote-ipgrv's helper (src/src/helper/mod.rs): the session *)
(* facade Helper (list / push) and the traversal engine PushHelper         *)
(* (push, push_queue, push_object, enqueue_links).                         *)
(*                                                                         *)
(* The object database and the references of the repository are inputs.    *)
(* The tracker (helper/tracker.rs) is not part of the sources: Spec starts *)
(* from the ledger Tracker::new creates, without rows, which is the only   *)
(* ledger the sources can leave behind; DiskSpec starts from ledgers that  *)
(* are found on disk.  The order in which the ipld_git crate yields the    *)
(* links of a commit is not fixed by the sources: both orders are          *)
(* followed.                                                               *)
(***************************************************************************)
EXTENDS Integers, Sequences, FiniteSets, TLC

(* ---------------------------------------------------------------------- *)
(* Bounds                                                                   *)
(* ---------------------------------------------------------------------- *)

\* number of push invocations followed in one behaviour
MaxPushes == 2

\* number of store submissions followed in one push invocation
MaxSubmitted == 8

(* ---------------------------------------------------------------------- *)
(* The repository: object database and references                          *)
(* ---------------------------------------------------------------------- *)

None == "none"

\* raw bytes that do not parse as an object of their kind
Malformed == "malformed"

\* a link whose hash multihash::decode rejects (line 188)
BadMultihash == "bad multihash"

\* a link whose digest Oid::from_bytes rejects (line 190)
BadDigest == "bad digest"

\* The object database read by odb.read(oid): kind and raw bytes of every
\* object.  The raw bytes of a commit, tree or tag are kept as the sequence
\* of hashes embedded in them, in on-disk order (commit: tree, then parents;
\* tree: entries; tag: target); those of a blob are its content.
\*   C2 --parent--> C1 --tree--> T1 --> B1
\*   C2 --tree----> T2 --> B1, B2          (B1 is shared by T1 and T2)
\*   C3 --tree----> T1                     (C3 is unrelated to C1 and C2)
\*   G1 --target--> C2
\*   L1 --tree----> M1                     (M1 is not in the database)
\*   K1                                    (a commit whose bytes are damaged)
\*   A1                                    (an object of no known kind)
\*   N3 --parent--> N2 --parent--> N1      (three commits that change no
\*   N3, N2, N1 --tree--> T0               file; T0 is the empty tree, which
\*                                         lies 1, 2 and 3 links under N3)
\*   H1 --tree--> T0, and a parent link whose hash is no multihash
\*   D1 --tree--> T0, and a parent link whose digest is no identifier
Odb ==
  [ B1 |-> [kind |-> "blob",   raw |-> << >>],
    B2 |-> [kind |-> "blob",   raw |-> <<"h", "e", "l", "l", "o", " ",
                                         "w", "o", "r", "l", "d", "!">>],
    T1 |-> [kind |-> "tree",   raw |-> <<"B1">>],
    T2 |-> [kind |-> "tree",   raw |-> <<"B1", "B2">>],
    C1 |-> [kind |-> "commit", raw |-> <<"T1">>],
    C2 |-> [kind |-> "commit", raw |-> <<"T2", "C1">>],
    C3 |-> [kind |-> "commit", raw |-> <<"T1">>],
    G1 |-> [kind |-> "tag",    raw |-> <<"C2">>],
    L1 |-> [kind |-> "commit", raw |-> <<"M1">>],
    K1 |-> [kind |-> "commit", raw |-> <<Malformed>>],
    A1 |-> [kind |-> "any",    raw |-> << >>],
    T0 |-> [kind |-> "tree",   raw |-> << >>],
    N1 |-> [kind |-> "commit", raw |-> <<"T0">>],
    N2 |-> [kind |-> "commit", raw |-> <<"T0", "N1">>],
    N3 |-> [kind |-> "commit", raw |-> <<"T0", "N2">>],
    H1 |-> [kind |-> "commit", raw |-> <<"T0", BadMultihash>>],
    D1 |-> [kind |-> "commit", raw |-> <<"T0", BadDigest>>] ]

Oids == DOMAIN Odb

\* The references of the local repository: a direct reference holds an
\* identifier, a symbolic one the name of another reference.
RepoRefs ==
  [ HEAD  |-> [symbolic |-> TRUE,  target |-> "refs/heads/main"],
    main  |-> [symbolic |-> FALSE, target |-> "C2"],
    old   |-> [symbolic |-> FALSE, target |-> "C1"],
    dev   |-> [symbolic |-> FALSE, target |-> "C3"],
    v1    |-> [symbolic |-> FALSE, target |-> "G1"],
    lost  |-> [symbolic |-> FALSE, target |-> "L1"],
    damaged |-> [symbolic |-> FALSE, target |-> "K1"],
    odd   |-> [symbolic |-> FALSE, target |-> "A1"],
    noop  |-> [symbolic |-> FALSE, target |-> "N3"],
    badhash   |-> [symbolic |-> FALSE, target |-> "H1"],
    baddigest |-> [symbolic |-> FALSE, target |-> "D1"] ]

\* full reference name -> key of RepoRefs (None when there is no such ref)
RefKey(name) ==
  CASE name = "HEAD"            -> "HEAD"
    [] name = "refs/heads/main" -> "main"
    [] name = "refs/heads/old"  -> "old"
    [] name = "refs/heads/dev"  -> "dev"
    [] name = "refs/tags/v1"    -> "v1"
    [] name = "refs/heads/lost"    -> "lost"
    [] name = "refs/heads/damaged" -> "damaged"
    [] name = "refs/heads/odd"     -> "odd"
    [] name = "refs/heads/noop"    -> "noop"
    [] name = "refs/heads/badhash"   -> "badhash"
    [] name = "refs/heads/baddigest" -> "baddigest"
    [] OTHER                    -> None

\* names a caller may pass as the source of a push
SrcNames == {"HEAD", "refs/heads/dev", "refs/heads/gone"}

\* the source names of the wider specification: those above, the tag, and
\* the refs that lead to converging paths of unequal length and to objects
\* that cannot be read, framed or parsed or whose links cannot be decoded
WideSrcNames == SrcNames \cup {"refs/tags/v1", "refs/heads/noop",
                               "refs/heads/lost", "refs/heads/damaged",
                               "refs/heads/odd", "refs/heads/badhash",
                               "refs/heads/baddigest"}

\* names a caller may pass as the destination of a push
DestNames == {"refs/heads/main", "refs/heads/dev"}

\* repo.find_reference(src)?.resolve()?.target(): follow symbolic
\* indirection down to a direct reference; None when the lookup fails.
RECURSIVE ResolveRef(_)
ResolveRef(name) ==
  LET k == RefKey(name) IN
    IF k = None THEN None
    ELSE IF RepoRefs[k].symbolic THEN ResolveRef(RepoRefs[k].target)
    ELSE RepoRefs[k].target

(* ---------------------------------------------------------------------- *)
(* Pure helpers of the traversal engine                                     *)
(* ---------------------------------------------------------------------- *)

SeqRange(s) == {s[i] : i \in 1..Len(s)}

\* the kinds push_object frames (lines 164-167)
KnownKinds == {"blob", "tree", "commit", "tag"}

\* format!("{}", n) of a length, line 170: the ASCII codes of its decimal
\* digits, most significant first
RECURSIVE Decimal(_)
Decimal(n) ==
  IF n < 10 THEN <<48 + n>>
  ELSE Decimal(n \div 10) \o <<48 + (n % 10)>>

\* FullObj with the length field written from the capacity reserved for
\* the bytes (line 162) instead of the length of the raw bytes.
FullObjReserved(oid) ==
  LET obj == Odb[oid] IN
    [ token |-> CASE obj.kind = "blob"   -> "blob "
                  [] obj.kind = "tree"   -> "tree "
                  [] obj.kind = "commit" -> "commit "
                  [] obj.kind = "tag"    -> "tag ",
      len   |-> Decimal(Len(obj.raw) + 12),
      nul   |-> 0,
      raw   |-> obj.raw ]

\* push_object, lines 162-172: the bytes handed to the store are the kind
\* token, the decimal length of the raw bytes, a zero byte and the raw bytes.
FullObj(oid) ==
  LET obj == Odb[oid] IN
    [ token |-> CASE obj.kind = "blob"   -> "blob "
                  [] obj.kind = "tree"   -> "tree "
                  [] obj.kind = "commit" -> "commit "
                  [] obj.kind = "tag"    -> "tag ",
      len   |-> Decimal(Len(obj.raw)),
      nul   |-> 0,
      raw   |-> obj.raw ]

\* no bytes: nothing has been framed
NoBytes == [token |-> "", len |-> << >>, nul |-> 0, raw |-> << >>]

\* what the calls of push_object that leave the process can do: all
\* succeed ("ok"), the object database or the read fails ("odb_err", lines
\* 158-159), the connection to the local node cannot be set up ("shell_err",
\* Shell::new_local, line 175), or dag_put fails ("put_err", line 176)
IoOutcomes == {"ok", "odb_err", "shell_err", "put_err"}

\* PushObject with the result of dag_put dropped instead of returned: the
\* bytes are handed back whether or not the store took them.
PushObjectUnchecked(oid, io) ==
  IF oid \notin Oids \/ io = "odb_err"
    THEN [status |-> "Git2Error", put |-> NoBytes, accepted |-> FALSE,
          bytes |-> NoBytes]
  ELSE IF Odb[oid].kind \notin KnownKinds
    THEN [status |-> "panic", put |-> NoBytes, accepted |-> FALSE,
          bytes |-> NoBytes]
  ELSE IF io = "shell_err"
    THEN [status |-> "ApiError", put |-> NoBytes, accepted |-> FALSE,
          bytes |-> NoBytes]
  ELSE [status |-> "Ok", put |-> FullObj(oid), accepted |-> (io = "ok"),
        bytes |-> FullObj(oid)]

\* push_object, lines 156-178: read the object (a missing object and a
\* failing object database are a Git2Error), frame it (a kind outside the
\* four known ones reaches unimplemented!() and panics), set up the
\* connection to the local node (a failure is an ApiError, and dag_put is
\* not called), dag_put the bytes (a failure is an ApiError) and return
\* them.  put is what dag_put was given (NoBytes when it was not called),
\* accepted whether the store took it, bytes what push_object returns.
PushObject(oid, io) ==
  IF oid \notin Oids \/ io = "odb_err"
    THEN [status |-> "Git2Error", put |-> NoBytes, accepted |-> FALSE,
          bytes |-> NoBytes]
  ELSE IF Odb[oid].kind \notin KnownKinds
    THEN [status |-> "panic", put |-> NoBytes, accepted |-> FALSE,
          bytes |-> NoBytes]
  ELSE IF io = "shell_err"
    THEN [status |-> "ApiError", put |-> NoBytes, accepted |-> FALSE,
          bytes |-> NoBytes]
  ELSE IF io = "put_err"
    THEN [status |-> "ApiError", put |-> FullObj(oid), accepted |-> FALSE,
          bytes |-> NoBytes]
  ELSE [status |-> "Ok", put |-> FullObj(oid), accepted |-> TRUE,
        bytes |-> FullObj(oid)]

\* The orders in which node.links() may yield the links of a commit.  The
\* sources call node.links() (line 187) and do not fix the order, which is
\* that of the ipld_git crate: the tree, then the parents, as they lie in
\* the raw bytes ("tree_first"), or the parents, then the tree
\* ("parents_first").
LinkOrders == {"tree_first", "parents_first"}

\* node.links() of the parsed bytes, line 187: the links of the node.  A
\* blob has none; those of a tree and of a tag are the hashes in their raw
\* bytes, in that order; those of a commit (raw bytes: the tree, then the
\* parents) come in the order given.
NodeLinks(obj_bytes, order) ==
  IF obj_bytes.token = "blob " \/ obj_bytes.raw = << >> THEN << >>
  ELSE IF obj_bytes.token = "commit " /\ order = "parents_first"
    THEN Tail(obj_bytes.raw) \o <<Head(obj_bytes.raw)>>
  ELSE obj_bytes.raw

\* The loop of enqueue_links, lines 187-191: every link is decoded and
\* pushed onto the queue in turn; a hash multihash::decode rejects ends the
\* loop with a MultihashError, a digest Oid::from_bytes rejects with a
\* Git2Error.  links is what has been pushed onto the queue.
RECURSIVE PushLinks(_, _)
PushLinks(links, pushed) ==
  IF links = << >> THEN [status |-> "Ok", links |-> pushed]
  ELSE IF Head(links) = BadMultihash
    THEN [status |-> "MultihashError", links |-> pushed]
  ELSE IF Head(links) = BadDigest
    THEN [status |-> "Git2Error", links |-> pushed]
  ELSE PushLinks(Tail(links), Append(pushed, Head(links)))

\* enqueue_links, lines 180-193: bytes that do not parse are an
\* IpldGitError and nothing is pushed onto the queue; otherwise the links
\* of the node are decoded and pushed in turn.
EnqueueLinks(obj_bytes, order) ==
  IF Malformed \in SeqRange(obj_bytes.raw)
    THEN [status |-> "IpldGitError", links |-> << >>]
    ELSE PushLinks(NodeLinks(obj_bytes, order), << >>)

\* the content address the store derives for a payload ("raw" input, "git"
\* format): the multihash whose digest is the native identifier
CidOf(oid) == <<"cid", oid>>

(* ---------------------------------------------------------------------- *)
(* Helper::list                                                             *)
(* ---------------------------------------------------------------------- *)

\* number of local branches of the repositories list() is tried on
MaxBranches == 2

\* a name that is not valid UTF-8: name() and symbolic_target() give None
NonUtf8 == "<not utf-8>"

\* an entry the branch iterator yields as an error
IterError == "<iterator error>"

\* format!("{}", oid): the identifier in hexadecimal
OidHex(oid) ==
  CASE oid = "C2" -> "c2c2c2c2c2c2c2c2c2c2c2c2c2c2c2c2c2c2c2c2"
    [] oid = "C3" -> "c3c3c3c3c3c3c3c3c3c3c3c3c3c3c3c3c3c3c3c3"

\* what the branch iterator can yield for one local branch
BranchEntries == {"refs/heads/main", "refs/heads/dev", NonUtf8, IterError}

\* what find_reference("HEAD") can find: nothing (kind "missing"), a direct
\* reference, a symbolic one, or a reference whose kind() is None
HeadStates ==
  {[kind |-> "missing", target |-> ""], [kind |-> "unknown", target |-> ""]}
  \cup {[kind |-> "oid", target |-> o] : o \in {"C2", "C3"}}
  \cup {[kind |-> "symbolic", target |-> t] : t \in {"refs/heads/main", NonUtf8}}

\* sequences over S of length at most n
SeqsUpTo(S, n) == UNION {[1..k -> S] : k \in 0..n}

\* the repositories list() is tried on
ListRepos ==
  [branches : SeqsUpTo(BranchEntries, MaxBranches), head : HeadStates]

\* list() has not been called
NoList == [status |-> "none", lines |-> << >>]

\* lines 78-85: one "? <name>" line per local branch, in the order of the
\* iterator; an entry that is an error returns it (branch_result?), a name
\* that is not UTF-8 panics (expect).
RECURSIVE ListBranches(_, _)
ListBranches(branches, refs_acc) ==
  IF branches = << >> THEN [status |-> "Ok", lines |-> refs_acc]
  ELSE IF Head(branches) = IterError
    THEN [status |-> "Git2Error", lines |-> << >>]
  ELSE IF Head(branches) = NonUtf8
    THEN [status |-> "panic", lines |-> << >>]
  ELSE ListBranches(Tail(branches),
                    Append(refs_acc, "? " \o Head(branches)))

\* ListHeadLine with the order of the words of the line exchanged
ListHeadLineSwapped(head) ==
  CASE head.kind = "missing" -> [status |-> "Git2Error", line |-> ""]
    [] head.kind = "unknown" -> [status |-> "panic", line |-> ""]
    [] head.kind = "oid" ->
         [status |-> "Ok", line |-> "HEAD " \o OidHex(head.target)]
    [] head.kind = "symbolic" ->
         IF head.target = NonUtf8
           THEN [status |-> "panic", line |-> ""]
           ELSE [status |-> "Ok", line |-> "HEAD " \o head.target]

\* lines 87-101: the line for HEAD.  A HEAD that cannot be found is a
\* Git2Error; a reference of unknown kind and a symbolic target that is not
\* UTF-8 panic (expect).
ListHeadLine(head) ==
  CASE head.kind = "missing" -> [status |-> "Git2Error", line |-> ""]
    [] head.kind = "unknown" -> [status |-> "panic", line |-> ""]
    [] head.kind = "oid" ->
         [status |-> "Ok", line |-> OidHex(head.target) \o " HEAD"]
    [] head.kind = "symbolic" ->
         IF head.target = NonUtf8
           THEN [status |-> "panic", line |-> ""]
           ELSE [status |-> "Ok", line |-> head.target \o " HEAD"]

\* Helper::list, lines 77-103: the branch lines, then the HEAD line.
List(repo) ==
  LET bl == ListBranches(repo.branches, << >>)
      hl == ListHeadLine(repo.head)
  IN IF bl.status # "Ok" THEN bl
     ELSE IF hl.status # "Ok" THEN [status |-> hl.status, lines |-> << >>]
     ELSE [status |-> "Ok", lines |-> Append(bl.lines, hl.line)]

(* ---------------------------------------------------------------------- *)
(* Graph notions used to state the properties                               *)
(* ---------------------------------------------------------------------- *)

\* a hash found in the raw bytes of an object that names an object
IsIdentifier(h) == h \notin {Malformed, BadMultihash, BadDigest}

\* The edges of the object graph: the identifiers embedded in a commit, a
\* tree or a tag, whether or not a traversal gets to enqueue them (a link
\* that cannot be decoded ends enqueue_links before or after its siblings
\* are pushed, depending on the order of the links).  Used as a set.
LinksOf(id) ==
  IF id \in Oids /\ Odb[id].kind \in KnownKinds \ {"blob"}
    THEN SelectSeq(Odb[id].raw, IsIdentifier)
    ELSE << >>

\* every object reachable from id, id included (the graph is acyclic)
RECURSIVE Reach(_)
Reach(id) ==
  {id} \cup UNION {Reach(c) : c \in SeqRange(LinksOf(id))}

\* a set of identifiers closed under links
Closed(S) == \A x \in S : Reach(x) \subseteq S

Commits == {o \in Oids : Odb[o].kind = "commit"}

\* x is an ancestor of (or equal to) the commit or tag s
IsAncestor(x, s) == x \in Commits /\ x \in Reach(s)

\* number of occurrences of x in the sequence s
Count(s, x) == Cardinality({i \in 1..Len(s) : s[i] = x})

(* ---------------------------------------------------------------------- *)
(* State                                                                    *)
(* ---------------------------------------------------------------------- *)

VARIABLES
  pc,         \* "idle" | "push_queue" | "returned": where Helper::push stands
  args,       \* arguments of the current push: [src, dest, force]
  src_hash,   \* the identifier src resolved to, or None
  queue,      \* PushHelper.queue
  ledger,     \* the tracker's object relation: identifier -> content address
  refs,       \* the tracker's ref relation: name -> identifier or None
  submitted,  \* identifiers dag_put accepted in this invocation, in order
  failedOid,  \* the identifier whose push ended in an ApiError, or None
  current,    \* the identifier dequeued last in this invocation, or None
  put,        \* the bytes dag_put was given for current, or NoBytes
  parsed,     \* the bytes enqueue_links was given last, or NoBytes
  result,     \* outcome of the current push once it has ended
  pushes,     \* number of push invocations started
  prev,       \* arguments and outcome of the previous push
  atStart,    \* ledger and refs as they were when the current push started
  listIn,     \* the branches and HEAD of the repository list() is called on
  listOut,    \* what list() returned, or NoList
  linkOrder   \* the order in which node.links() yields the links of a commit

vars == <<pc, args, src_hash, queue, ledger, refs, submitted,
          failedOid, current, put, parsed, result, pushes, prev, atStart,
          listIn, listOut, linkOrder>>

listVars == <<listIn, listOut>>

\* the arguments before any push
NoArgs == [src |-> None, dest |-> None, force |-> FALSE]

\* the object rows of a tracker that has recorded nothing
NoRows == [x \in {} |-> CidOf(x)]

\* the ref rows of a tracker that has mapped no reference
NoRefs == [n \in DestNames |-> None]

\* Helper::new, lines 61-75: the repository is opened and the tracker is
\* opened on the ipgrv directory, which it creates; no push has run.  No
\* code of the helper adds a row to the tracker, so the ledger it is opened
\* on has no rows.
Init ==
  /\ pc = "idle"
  /\ args = NoArgs
  /\ src_hash = None
  /\ queue = << >>
  /\ ledger = NoRows
  /\ refs = NoRefs
  /\ submitted = << >>
  /\ failedOid = None
  /\ current = None
  /\ put = NoBytes
  /\ parsed = NoBytes
  /\ result = None
  /\ pushes = 0
  /\ prev = [args |-> NoArgs, result |-> None]
  /\ atStart = [ledger |-> ledger, refs |-> refs]
  /\ listIn = [branches |-> <<"refs/heads/main", "refs/heads/dev">>,
               head |-> [kind |-> "symbolic", target |-> "refs/heads/main"]]
  /\ listOut = NoList
  /\ linkOrder \in LinkOrders

\* the objects a ledger found on disk can hold rows for: those under the
\* source names
LedgerOids ==
  UNION {Reach(ResolveRef(n)) : n \in {m \in SrcNames : ResolveRef(m) # None}}

\* The object rows an ipgrv directory that was written before the helper
\* is constructed can hold.  The sources never write the directory; its
\* content is that of the spec's Tracker (3: the relation id -> CA, kept
\* closed under links, I1), every row holding the address of its object.
\* These rows are an input of DiskSpec only, on which the properties about
\* a push that meets rows (C2) and a mapped reference (C4) are tried.
DiskLedgers ==
  {[x \in S |-> CidOf(x)] : S \in {T \in SUBSET LedgerOids : Closed(T)}}

\* the ref rows such a directory can hold next to the object rows l (3:
\* the relation refName -> id, a mapped identifier having its closure
\* ledgered, I3)
DiskRefs(l) ==
  {r \in [DestNames -> Commits \cup {None}] :
     \A n \in DestNames : r[n] # None => Reach(r[n]) \subseteq DOMAIN l}

\* Helper::new on a repository whose ipgrv directory holds rows already
DiskInit ==
  /\ pc = "idle"
  /\ args = NoArgs
  /\ src_hash = None
  /\ queue = << >>
  /\ ledger \in DiskLedgers
  /\ refs \in DiskRefs(ledger)
  /\ submitted = << >>
  /\ failedOid = None
  /\ current = None
  /\ put = NoBytes
  /\ parsed = NoBytes
  /\ result = None
  /\ pushes = 0
  /\ prev = [args |-> NoArgs, result |-> None]
  /\ atStart = [ledger |-> ledger, refs |-> refs]
  /\ listIn = [branches |-> <<"refs/heads/main", "refs/heads/dev">>,
               head |-> [kind |-> "symbolic", target |-> "refs/heads/main"]]
  /\ listOut = NoList
  /\ linkOrder \in LinkOrders

(* ---------------------------------------------------------------------- *)
(* Helper::push and PushHelper                                              *)
(* ---------------------------------------------------------------------- *)

\* Helper::push, lines 106-113, with PushHelper::new and PushHelper::push
\* (line 132): resolve src, seed the queue.  A reference that cannot be
\* found ends the push with a Git2Error.  A push that ended in a panic has
\* taken the process down; the next push runs in a new process, whose
\* tracker is opened on the same ledger and which meets the same ipld_git.
PushStart(src, dest, force) ==
  /\ pc \in {"idle", "returned"}
  /\ pushes < MaxPushes
  /\ pushes' = pushes + 1
  /\ prev' = [args |-> args, result |-> result]
  /\ args' = [src |-> src, dest |-> dest, force |-> force]
  /\ atStart' = [ledger |-> ledger, refs |-> refs]
  /\ submitted' = << >>
  /\ failedOid' = None
  /\ current' = None
  /\ put' = NoBytes
  /\ parsed' = NoBytes
  /\ src_hash' = ResolveRef(src)
  /\ IF ResolveRef(src) = None
       THEN /\ pc' = "returned"
            /\ result' = "Git2Error"
            /\ queue' = << >>
       ELSE /\ pc' = "push_queue"
            /\ result' = None
            /\ queue' = <<ResolveRef(src)>>
  /\ UNCHANGED <<ledger, refs>>
  /\ UNCHANGED <<listVars, linkOrder>>

\* PushQueueStep reading the front of the queue without removing it.
PushQueueStepNoPop(io) ==
  /\ pc = "push_queue"
  /\ queue # << >>
  /\ Len(submitted) < MaxSubmitted
  /\ LET oid == Head(queue)
         po  == PushObject(oid, io)
         el  == EnqueueLinks(po.bytes, linkOrder)
     IN /\ current' = oid
        /\ put' = po.put
        /\ submitted' = IF po.accepted THEN Append(submitted, oid)
                        ELSE submitted
        /\ failedOid' = IF po.status = "ApiError" THEN oid ELSE failedOid
        /\ IF po.status # "Ok"
             THEN /\ pc' = "returned"
                  /\ result' = po.status
                  /\ parsed' = NoBytes
                  /\ queue' = << >>
             ELSE /\ parsed' = po.bytes
                  /\ IF el.status # "Ok"
                       THEN /\ pc' = "returned"
                            /\ result' = el.status
                            /\ queue' = << >>
                       ELSE /\ queue' = queue \o el.links
                            /\ UNCHANGED <<pc, result>>
  /\ UNCHANGED <<args, src_hash, ledger, refs, pushes, prev, atStart>>
  /\ UNCHANGED <<listVars, linkOrder>>

\* One iteration of the loop of push_queue, lines 138-150: pop the front
\* identifier, push_object (read, frame, dag_put), enqueue_links.  The
\* tracker is not consulted and no row is added (lines 140-147).  An error
\* of push_object or enqueue_links ends the push with that error; the queue
\* is dropped with the PushHelper.
PushQueueStep(io) ==
  /\ pc = "push_queue"
  /\ queue # << >>
  /\ Len(submitted) < MaxSubmitted
  /\ LET oid == Head(queue)
         po  == PushObject(oid, io)
         el  == EnqueueLinks(po.bytes, linkOrder)
     IN /\ current' = oid
        /\ put' = po.put
        /\ submitted' = IF po.accepted THEN Append(submitted, oid)
                        ELSE submitted
        /\ failedOid' = IF po.status = "ApiError" THEN oid ELSE failedOid
        /\ IF po.status # "Ok"
             THEN /\ pc' = "returned"
                  /\ result' = po.status
                  /\ parsed' = NoBytes
                  /\ queue' = << >>
             ELSE /\ parsed' = po.bytes
                  /\ IF el.status # "Ok"
                       THEN /\ pc' = "returned"
                            /\ result' = el.status
                            /\ queue' = << >>
                       ELSE /\ queue' = Tail(queue) \o el.links
                            /\ UNCHANGED <<pc, result>>
  /\ UNCHANGED <<args, src_hash, ledger, refs, pushes, prev, atStart>>
  /\ UNCHANGED <<listVars, linkOrder>>

\* The queue is empty: push_queue returns Ok(()) (line 151) and
\* Helper::push reaches unimplemented!() (line 117), which panics.  No ref
\* row is written.
PushQueueDone ==
  /\ pc = "push_queue"
  /\ queue = << >>
  /\ pc' = "returned"
  /\ result' = "panic"
  /\ UNCHANGED <<args, src_hash, queue, ledger, refs, submitted,
                 failedOid, current, put, parsed, pushes, prev, atStart>>
  /\ UNCHANGED <<listVars, linkOrder>>

Next ==
  \/ \E src \in SrcNames, dest \in DestNames, force \in BOOLEAN :
        PushStart(src, dest, force)
  \/ \E io \in IoOutcomes : PushQueueStep(io)
  \/ PushQueueDone

Spec == Init /\ [][Next]_vars

\* The specification of pushes on a repository whose ipgrv directory holds
\* rows already.
DiskSpec == DiskInit /\ [][Next]_vars

\* The wider specification: the caller may name every reference of the
\* repository.
WideInit == Init

WideNext ==
  \/ \E src \in WideSrcNames, dest \in DestNames, force \in BOOLEAN :
        PushStart(src, dest, force)
  \/ \E io \in IoOutcomes : PushQueueStep(io)
  \/ PushQueueDone

WideSpec == WideInit /\ [][WideNext]_vars

\* The specification of list(): the helper is constructed on any of the
\* repositories of ListRepos and list() is called on it.
ListInit ==
  /\ pc = "idle"
  /\ args = NoArgs
  /\ src_hash = None
  /\ queue = << >>
  /\ ledger = NoRows
  /\ refs = NoRefs
  /\ submitted = << >>
  /\ failedOid = None
  /\ current = None
  /\ put = NoBytes
  /\ parsed = NoBytes
  /\ result = None
  /\ pushes = 0
  /\ prev = [args |-> NoArgs, result |-> None]
  /\ atStart = [ledger |-> ledger, refs |-> refs]
  /\ listIn \in ListRepos
  /\ listOut = NoList
  /\ linkOrder \in LinkOrders

\* Helper::list is called and returns (or panics)
ListCall ==
  /\ listOut = NoList
  /\ listOut' = List(listIn)
  /\ UNCHANGED <<pc, args, src_hash, queue, ledger, refs, submitted,
                 failedOid, current, put, parsed, result, pushes, prev,
                 atStart, listIn, linkOrder>>

ListNext == ListCall

ListSpec == ListInit /\ [][ListNext]_vars

\* Helper::push runs on one thread and every call it makes returns: a push
\* that has been started keeps taking its steps.  Whether the caller starts
\* another push is up to the caller.
TermSpec ==
  /\ WideSpec
  /\ WF_vars(\E io \in IoOutcomes : PushQueueStep(io))
  /\ WF_vars(PushQueueDone)

TypeOK ==
  /\ pc \in {"idle", "push_queue", "returned"}
  /\ src_hash # None => SeqRange(queue) \subseteq Reach(src_hash)
  /\ DOMAIN ledger \subseteq Oids
  /\ pushes \in 0..MaxPushes
  /\ result \in {None, "Git2Error", "ApiError", "IpldGitError",
                "MultihashError", "panic"}
  /\ linkOrder \in LinkOrders
  /\ Len(submitted) <= MaxSubmitted

(* ---------------------------------------------------------------------- *)
(* Properties                                                               *)
(* ---------------------------------------------------------------------- *)

\* the outcomes in which push returned an error value
ErrorResults == {"Git2Error", "ApiError", "IpldGitError", "MultihashError"}

\* the current push has ended and its traversal drained the queue
TraversalDone == pc = "returned" /\ result \notin ErrorResults

\* the previous push had the same arguments as the current one
SameArgsAsPrev == prev.result # None /\ prev.args = args

\* the condition under which the ref update is to be accepted
Accept ==
  \/ atStart.refs[args.dest] = None
  \/ args.force
  \/ IsAncestor(atStart.refs[args.dest], src_hash)

\* what is reachable from id without passing through a
RECURSIVE ReachAvoid(_, _)
ReachAvoid(id, a) ==
  IF id = a THEN {}
  ELSE {id} \cup UNION {ReachAvoid(c, a) : c \in SeqRange(LinksOf(id))}

\* C1 (P2, idempotent dedup): when a push follows a push with the same
\* arguments whose traversal ran to its end, the second push submits nothing
\* to the store, adds no ledger row and leaves the ref row of its
\* destination as it was.
C1_IdempotentDedup ==
  (SameArgsAsPrev /\ prev.result \notin ErrorResults) =>
     /\ submitted = << >>
     /\ ledger = atStart.ledger
     /\ refs[args.dest] = atStart.refs[args.dest]

\* C2 (P3, traversal cut): if A has a ledger row when a push starts, the
\* push submits neither A nor any object it could reach only through A.
C2_TraversalCut ==
  (src_hash # None) =>
     \A a \in DOMAIN atStart.ledger :
        \A x \in Reach(src_hash) \ ReachAvoid(src_hash, a) :
           x \notin SeqRange(submitted)

\* C3 (P4, fail-fast): when the store fails a submission, the push returns
\* an error, the ref row of the destination is as before the push, the
\* failing object gets no ledger row, and the objects submitted before the
\* failure are ledgered.
C3_FailFast ==
  (failedOid # None) =>
     /\ pc = "returned" /\ result = "ApiError"
     /\ refs[args.dest] = atStart.refs[args.dest]
     /\ failedOid \notin (DOMAIN ledger \ DOMAIN atStart.ledger)
     /\ SeqRange(submitted) \subseteq DOMAIN ledger

\* C4 (P5, non-fast-forward): when the destination is mapped to X and X is
\* not an ancestor of the source, a push without force ends with a
\* non-fast-forward error and the mapping still X; with force it succeeds
\* and the mapping is the source identifier.
C4_NonFastForward ==
  (/\ TraversalDone
   /\ atStart.refs[args.dest] # None
   /\ ~IsAncestor(atStart.refs[args.dest], src_hash)) =>
     IF args.force
       THEN result = "Ok" /\ refs[args.dest] = src_hash
       ELSE result = "NonFastForward"
            /\ refs[args.dest] = atStart.refs[args.dest]

\* C5 (I1, closure) and C6 (I3, ref commit ordering) speak of the states in
\* which an object row or a ref row is written.  No step of Helper::push
\* or PushHelper writes either (lines 140-147 and 115-117): ledger and refs
\* are left unchanged by every action, and there is no such state to check
\* the two properties on.

\* C7 (I2, at most once): within one push no identifier is submitted twice,
\* and no identifier is in the queue twice or in the queue after it has
\* been processed.
C7_AtMostOnce ==
  \A x \in Oids : Count(submitted, x) + Count(queue, x) <= 1

\* C8 (resumability): when a push aborted by the store is invoked again
\* with the same arguments and its traversal runs to the end, everything
\* reachable from the source has a ledger row and the ref row, if the update
\* is acceptable, is the source identifier.
C8_Resumable ==
  (SameArgsAsPrev /\ prev.result = "ApiError" /\ TraversalDone) =>
     /\ Reach(src_hash) \subseteq DOMAIN ledger
     /\ Accept => refs[args.dest] = src_hash

\* C9 (exact coverage): on a ledger without rows and with a store that does
\* not fail, a push submits each object reachable from the source exactly
\* once and nothing else, and leaves a ledger row for exactly those objects.
C9_ExactCoverage ==
  (TraversalDone /\ DOMAIN atStart.ledger = {}) =>
     /\ \A x \in Oids :
          Count(submitted, x) = IF x \in Reach(src_hash) THEN 1 ELSE 0
     /\ DOMAIN ledger = Reach(src_hash)

\* C10 (ref update acceptance): when the traversal ends without error and
\* the destination is unmapped, or force is set, or the mapped identifier is
\* an ancestor of the source, the push maps the destination to the source
\* identifier and returns success.
C10_RefAccepted ==
  (TraversalDone /\ Accept) =>
     /\ refs[args.dest] = src_hash
     /\ result = "Ok"

\* C11 (termination): a push that has started its traversal ends, with the
\* queue empty, whatever the shape of the graph under its source.
C11_Terminates ==
  (pc = "push_queue") ~> (pc = "returned" /\ queue = << >>)

\* C11 witness: the push of the tag has ended after going down every path
\* under it, the shared blob included once per path.
C11_Witness ==
  /\ pc = "returned" /\ queue = << >>
  /\ src_hash = "G1"
  /\ Count(submitted, "B1") = 2
  /\ Len(submitted) = 8

ListReadable ==
  /\ \A i \in 1..Len(listIn.branches) :
        listIn.branches[i] \notin {NonUtf8, IterError}
  /\ listIn.head.kind \in {"oid", "symbolic"}
  /\ listIn.head.target # NonUtf8

\* C13 (shape of list()): on a repository with branches b1..bn whose names
\* and HEAD can be read, list() returns n+1 lines: "? <bi>" for i = 1..n in
\* the order of the enumeration, then, last, "<oid> HEAD" for a direct HEAD
\* or "<target name> HEAD" for a symbolic one.
C13_ListShape ==
  (listOut # NoList /\ ListReadable) =>
     LET n == Len(listIn.branches) IN
       /\ listOut.status = "Ok"
       /\ Len(listOut.lines) = n + 1
       /\ \A i \in 1..n : listOut.lines[i] = "? " \o listIn.branches[i]
       /\ listOut.lines[n + 1] =
            IF listIn.head.kind = "oid"
              THEN OidHex(listIn.head.target) \o " HEAD"
              ELSE listIn.head.target \o " HEAD"
       /\ \A i \in 1..n : listOut.lines[i] # listOut.lines[n + 1]

\* C13 witness: the repository with branches main and dev and HEAD symbolic
\* to main has been listed.
C13_Witness ==
  /\ listIn.branches = <<"refs/heads/main", "refs/heads/dev">>
  /\ listIn.head = [kind |-> "symbolic", target |-> "refs/heads/main"]
  /\ listOut = [status |-> "Ok",
                lines |-> <<"? refs/heads/main", "? refs/heads/dev",
                            "refs/heads/main HEAD">>]

\* C14 (list() reports failures as values): when HEAD cannot be read, or the
\* symbolic target of HEAD or a branch name is not UTF-8, list() returns a
\* repository-access error.
C14_ListErrors ==
  (/\ listOut # NoList
   /\ \/ listIn.head.kind = "missing"
      \/ listIn.head.target = NonUtf8
      \/ NonUtf8 \in SeqRange(listIn.branches)) =>
     listOut.status = "Git2Error"

\* the number a sequence of ASCII decimal digits denotes
RECURSIVE DigitsValue(_)
DigitsValue(d) ==
  IF d = << >> THEN 0
  ELSE 10 * DigitsValue(SubSeq(d, 1, Len(d) - 1)) + (d[Len(d)] - 48)

\* C15 (P1, framing): the bytes given to the store for an object are its
\* kind token, one space, the decimal length of its raw bytes, one zero byte
\* and the raw bytes as they are; the bytes given to link extraction are the
\* same bytes.
C15_Framing ==
  (put # NoBytes) =>
     LET obj == Odb[current] IN
       /\ put.token = obj.kind \o " "
       /\ put.token \in {"blob ", "tree ", "commit ", "tag "}
       /\ \A i \in 1..Len(put.len) : put.len[i] \in 48..57
       /\ Len(put.len) >= 1
       /\ Len(put.len) > 1 => put.len[1] # 48
       /\ DigitsValue(put.len) = Len(obj.raw)
       /\ put.nul = 0
       /\ put.raw = obj.raw
       /\ (failedOid = None) => parsed = put
       /\ (parsed # NoBytes) => parsed = put

\* C15 witness: the blob of twelve bytes has been given to the store and to
\* link extraction with the two-digit length 12.
C15_Witness ==
  /\ current = "B2"
  /\ put.token = "blob "
  /\ put.len = <<49, 50>>
  /\ Len(put.raw) = 12
  /\ parsed = put

\* C16 (error propagation): an error met while resolving the source,
\* reading an object, framing it, submitting it or extracting its links ends
\* the push with that error as its result, with no ref row written.
C16_ErrorsAbort ==
  (pc = "returned") =>
     /\ (src_hash = None) => (result = "Git2Error" /\ submitted = << >>)
     /\ (current # None /\ current \notin Oids) => result = "Git2Error"
     /\ (current \in Oids /\ Odb[current].kind \notin KnownKinds) =>
           result \in ErrorResults
     /\ (failedOid # None) => result = "ApiError"
     /\ (parsed # NoBytes /\ Malformed \in SeqRange(parsed.raw)) =>
           result = "IpldGitError"
     /\ (parsed # NoBytes /\ BadMultihash \in SeqRange(parsed.raw)) =>
           result = "MultihashError"
     /\ (parsed # NoBytes /\ BadDigest \in SeqRange(parsed.raw)) =>
           result = "Git2Error"
     /\ refs = atStart.refs

\* the length of the shortest path from the identifiers of frontier to x
RECURSIVE DistFrom(_, _)
DistFrom(frontier, x) ==
  IF x \in frontier THEN 0
  ELSE 1 + DistFrom(UNION {SeqRange(LinksOf(f)) : f \in frontier}, x)

\* C17 (breadth-first order): the distance from the source of the objects
\* submitted in one push never decreases along the order of submission.
\* (Under N3 the tree T0, at distance 1, is enqueued again when N1, at
\* distance 2, is processed, in either order of the links of a commit.)
C17_BreadthFirst ==
  \A i, j \in 1..Len(submitted) :
     i < j => DistFrom({src_hash}, submitted[i])
                <= DistFrom({src_hash}, submitted[j])

\* C18 (unknown kinds): when the object read for a dequeued identifier is
\* of none of the four kinds, the push ends with an error value and nothing
\* has been given to the store for that object.
C18_UnknownKindRejected ==
  (current \in Oids /\ Odb[current].kind \notin KnownKinds) =>
     /\ pc = "returned"
     /\ result \in ErrorResults
     /\ put = NoBytes
     /\ current \notin SeqRange(submitted)

\* C19 (queue follows submission): during a push every identifier in the
\* queue is the source or a link of an object the store has accepted in
\* this push, and every object submitted is reachable from the source.
C19_QueueFollowsSubmission ==
  (pc = "push_queue") =>
     /\ \A i \in 1..Len(queue) :
          \/ queue[i] = src_hash /\ submitted = << >>
          \/ \E k \in 1..Len(submitted) :
                queue[i] \in SeqRange(LinksOf(submitted[k]))
     /\ SeqRange(submitted) \subseteq Reach(src_hash)
     /\ put # NoBytes => current = submitted[Len(submitted)]

\* C19 witness: the push of HEAD has submitted the commit and its tree, and
\* the queue holds the parent and the entries of the tree.
C19_Witness ==
  /\ pc = "push_queue"
  /\ submitted = <<"C2", "T2">>
  /\ queue = <<"C1", "B1", "B2">>

====
